---- MODULE Spec2Model ----
(***************************************************************************)
(* Contact search query compiler of temba/contacts/search.py: lexer, LR    *)
(* parser, tree optimizer (simplify, split_by_prop), property resolver and *)
(* predicate compiler.                                                     *)
(*                                                                         *)
(* Query nodes are Python objects that the optimizer mutates in place      *)
(* (self.children = ...), so they live in a heap: a sequence of node       *)
(* records addressed by their index, children being sequences of indices.  *)
(* Strings are sequences of one-character strings, so that the lexer, the  *)
(* lower-casing and the literal conversions are computed, not assumed.     *)
(***************************************************************************)
EXTENDS Integers, Sequences, FiniteSets, TLC

VARIABLES
    pc,         \* position in the pipeline
    built,      \* the trees under construction (their roots)
    text,       \* the query text (a sequence of characters)
    org,        \* the organization the query is compiled for
    heap,       \* the node objects
    root,       \* ContactQuery.root of the parsed (receiver) query
    cur,        \* root of the query returned by the last optimizer call
    pre,        \* heap and root as they were before the last optimizer call
    tree0,      \* the receiver's tree as it was when it was built
    treeS,      \* the value of simplify(t) when it returned
    propMap,    \* the property map of the last get_prop_map call
    rawResult,  \* outcome of compiling the un-optimized query
    optResult   \* outcome of compiling the optimized query

vars == <<pc, built, text, org, heap, root, cur, pre, tree0, treeS, propMap,
          rawResult, optResult>>

(***************************************************************************)
(* Bounds                                                                  *)
(***************************************************************************)
MaxLeaves == 4
MaxWords == 4

(***************************************************************************)
(* Nodes                                                                   *)
(***************************************************************************)
Elems(s) == {s[i] : i \in 1..Len(s)}
Unset == [kind |-> "unset"]
Raise(kind, message, at) == [kind |-> kind, message |-> message, at |-> at]

AND == "AND"
OR == "OR"
NoOp == "-"
None == <<"<None>">>
IMPLICIT_PROP == <<"*">>

COMPARATOR_ALIASES(c) ==
    IF c = <<"i", "s">> THEN <<"=">>
    ELSE IF c = <<"h", "a", "s">> THEN <<"~">>
    ELSE c

Condition(prop, comparator, value) ==
    [kind |-> "Condition", prop |-> prop,
     comparator |-> COMPARATOR_ALIASES(comparator), value |-> value,
     op |-> NoOp, children |-> <<>>]

BoolCombination(op, children) ==
    [kind |-> "BoolCombination", prop |-> None, comparator |-> <<>>,
     value |-> <<>>, op |-> op, children |-> children]

\* the constructor's assertion: every child is a Condition on prop
SinglePropAssert(h, prop, children) ==
    \A i \in 1..Len(children) :
        h[children[i]].kind = "Condition" /\ h[children[i]].prop = prop

SinglePropCombination(prop, op, children) ==
    [kind |-> "SinglePropCombination", prop |-> prop, comparator |-> <<>>,
     value |-> <<>>, op |-> op, children |-> children]

\* object creation: the new object gets the next free address
New(h, node) == [heap |-> Append(h, node), ret |-> Len(h) + 1]

isCondition(h, id) == h[id].kind = "Condition"

(***************************************************************************)
(* Structural equality (__eq__): the tree of values below a node           *)
(***************************************************************************)
RECURSIVE TreeOf(_, _)
TreeOf(h, id) ==
    [h[id] EXCEPT !.children =
        [i \in 1..Len(h[id].children) |-> TreeOf(h, h[id].children[i])]]

\* the nodes reachable from a node, itself included
RECURSIVE Nodes(_, _)
Nodes(h, id) ==
    {id} \cup UNION {Nodes(h, h[id].children[i]) : i \in 1..Len(h[id].children)}

(***************************************************************************)
(* Optimizer: simplify                                                     *)
(***************************************************************************)
RECURSIVE simplify(_, _)
RECURSIVE SimplifyChildren(_, _)

\* the children left as they are, not simplified first
SimplifyChildrenSkipped(h, ids) == [heap |-> h, ids |-> ids]

\* [c.simplify() for c in self.children], left to right
SimplifyChildren(h, ids) ==
    IF ids = <<>> THEN [heap |-> h, ids |-> <<>>]
    ELSE LET a == simplify(h, Head(ids))
             b == SimplifyChildren(a.heap, Tail(ids))
         IN [heap |-> b.heap, ids |-> <<a.ret>> \o b.ids]

\* the loop over the children: ok is FALSE when it returns self early
RECURSIVE Splice(_, _, _)
Splice(h, op, ids) ==
    IF ids = <<>> THEN [ok |-> TRUE, list |-> <<>>]
    ELSE LET c == Head(ids)
             rest == Splice(h, op, Tail(ids))
         IN IF isCondition(h, c)
            THEN [ok |-> rest.ok, list |-> <<c>> \o rest.list]
            ELSE IF h[c].op # op
            THEN [ok |-> FALSE, list |-> <<>>]
            ELSE [ok |-> rest.ok, list |-> h[c].children \o rest.list]

simplify(h, id) ==
    IF isCondition(h, id) THEN [heap |-> h, ret |-> id]
    ELSE LET r == SimplifyChildren(h, h[id].children)
             h1 == [r.heap EXCEPT ![id].children = r.ids]
             s == Splice(h1, h1[id].op, r.ids)
         IN IF ~s.ok THEN [heap |-> h1, ret |-> id]
            ELSE New(h1, BoolCombination(h1[id].op, s.list))

(***************************************************************************)
(* Optimizer: split_by_prop                                                *)
(***************************************************************************)
\* the key a child is filed under
GroupKey(h, c) == IF isCondition(h, c) THEN h[c].prop ELSE None

\* children_by_prop: an ordered dictionary, as a sequence of
\* [prop, children] in order of first insertion
RECURSIVE ChildrenByProp(_, _, _)
ChildrenByProp(h, ids, acc) ==
    IF ids = <<>> THEN acc
    ELSE LET c == Head(ids)
             k == GroupKey(h, c)
             at == {i \in 1..Len(acc) : acc[i].prop = k}
         IN IF at = {}
            THEN ChildrenByProp(h, Tail(ids),
                     Append(acc, [prop |-> k, children |-> <<c>>]))
            ELSE ChildrenByProp(h, Tail(ids),
                     [i \in 1..Len(acc) |->
                         IF i \in at
                         THEN [acc[i] EXCEPT !.children = Append(@, c)]
                         ELSE acc[i]])

\* new_children: a group of several children on a property becomes one
\* SinglePropCombination carrying the parent's op
RECURSIVE NewChildren(_, _, _)

\* every wrapper given the OR operator, whatever the parent's
NewChildrenAlwaysOr(h, op, groups) ==
    IF groups = <<>> THEN [heap |-> h, ids |-> <<>>]
    ELSE LET g == Head(groups)
         IN IF Len(g.children) > 1 /\ g.prop # None
            THEN LET n == New(h, SinglePropCombination(g.prop, OR, g.children))
                     rest == NewChildren(n.heap, op, Tail(groups))
                 IN [heap |-> rest.heap, ids |-> <<n.ret>> \o rest.ids]
            ELSE LET rest == NewChildren(h, op, Tail(groups))
                 IN [heap |-> rest.heap, ids |-> g.children \o rest.ids]

NewChildren(h, op, groups) ==
    IF groups = <<>> THEN [heap |-> h, ids |-> <<>>]
    ELSE LET g == Head(groups)
         IN IF Len(g.children) > 1 /\ g.prop # None
            THEN LET n == New(h, SinglePropCombination(g.prop, op, g.children))
                     rest == NewChildren(n.heap, op, Tail(groups))
                 IN [heap |-> rest.heap, ids |-> <<n.ret>> \o rest.ids]
            ELSE LET rest == NewChildren(h, op, Tail(groups))
                 IN [heap |-> rest.heap, ids |-> g.children \o rest.ids]

RECURSIVE split_by_prop(_, _)
RECURSIVE SplitChildren(_, _)

SplitChildren(h, ids) ==
    IF ids = <<>> THEN [heap |-> h, ids |-> <<>>]
    ELSE LET a == split_by_prop(h, Head(ids))
             b == SplitChildren(a.heap, Tail(ids))
         IN [heap |-> b.heap, ids |-> <<a.ret>> \o b.ids]

split_by_prop(h, id) ==
    IF isCondition(h, id) THEN [heap |-> h, ret |-> id]
    ELSE LET r == SplitChildren(h, h[id].children)
             h1 == [r.heap EXCEPT ![id].children = r.ids]
             n == NewChildren(h1, h1[id].op, ChildrenByProp(h1, r.ids, <<>>))
         IN IF Len(n.ids) = 1 THEN [heap |-> n.heap, ret |-> n.ids[1]]
            ELSE New(n.heap, BoolCombination(h1[id].op, n.ids))

\* ContactQuery.optimized
optimized(h, id) ==
    LET s == simplify(h, id)
    IN split_by_prop(s.heap, s.ret)

(***************************************************************************)
(* Lexer                                                                   *)
(***************************************************************************)
LowerCase == <<"a", "b", "c", "d", "e", "f", "g", "h", "i", "j", "k", "l", "m",
               "n", "o", "p", "q", "r", "s", "t", "u", "v", "w", "x", "y", "z">>
UpperCase == <<"A", "B", "C", "D", "E", "F", "G", "H", "I", "J", "K", "L", "M",
               "N", "O", "P", "Q", "R", "S", "T", "U", "V", "W", "X", "Y", "Z">>
Digits == <<"0", "1", "2", "3", "4", "5", "6", "7", "8", "9">>

\* str.lower()
LowerOf == [i \in 1..Len(UpperCase) |-> LowerCase[i]]
UpperIndex == [c \in Elems(UpperCase) |-> CHOOSE i \in 1..Len(UpperCase) : UpperCase[i] = c]
lowerChar(c) == IF c \in DOMAIN UpperIndex THEN LowerOf[UpperIndex[c]] ELSE c
lower(s) == [i \in 1..Len(s) |-> lowerChar(s[i])]

t_ignore == {" ", "\t"}
TextChars ==
    Elems(LowerCase) \cup Elems(UpperCase) \cup Elems(Digits) \cup {"_", ".", "+", "-", "/"}
isTextChar(c) == c \in TextChars

reserved(w) ==
    IF w = <<"a", "n", "d">> THEN "AND"
    ELSE IF w = <<"o", "r">> THEN "OR"
    ELSE IF w = <<"h", "a", "s">> THEN "COMPARATOR"
    ELSE IF w = <<"i", "s">> THEN "COMPARATOR"
    ELSE "TEXT"

Token(type, value) == [type |-> type, value |-> value]

\* length of the match of t_COMPARATOR at the head of s (0: no match); the
\* alternatives of ~|=|[<>]=?|~~? are tried in order, so ~ alone matches first
matchCOMPARATOR(s) ==
    IF s[1] \in {"~", "="} THEN 1
    ELSE IF s[1] \in {"<", ">"}
    THEN (IF Len(s) > 1 /\ s[2] = "=" THEN 2 ELSE 1)
    ELSE 0

\* length of the match of t_STRING: a quote, no quotes, a quote
RECURSIVE toQuote(_)
toQuote(s) ==
    IF s = <<>> THEN 0
    ELSE IF s[1] = "\"" THEN 1
    ELSE LET n == toQuote(Tail(s)) IN IF n = 0 THEN 0 ELSE n + 1
matchSTRING(s) ==
    IF s[1] = "\"" /\ toQuote(Tail(s)) > 0 THEN 1 + toQuote(Tail(s)) ELSE 0

\* length of the match of t_TEXT: the longest run of text characters
RECURSIVE matchTEXT(_)
matchTEXT(s) ==
    IF s = <<>> \/ ~isTextChar(s[1]) THEN 0 ELSE 1 + matchTEXT(Tail(s))

\* the token stream of a text; the lexer raises at an invalid character when
\* the parser asks for that token, which is the stream's last, of type "error"
RECURSIVE tokenize(_)
tokenize(s) ==
    IF s = <<>> THEN <<>>
    ELSE IF s[1] \in t_ignore THEN tokenize(Tail(s))
    ELSE IF matchCOMPARATOR(s) > 0
    THEN LET n == matchCOMPARATOR(s)
         IN <<Token("COMPARATOR", SubSeq(s, 1, n))>>
                \o tokenize(SubSeq(s, n + 1, Len(s)))
    ELSE IF matchSTRING(s) > 0
    THEN LET n == matchSTRING(s)
         IN <<Token("STRING", SubSeq(s, 2, n - 1))>>
                \o tokenize(SubSeq(s, n + 1, Len(s)))
    ELSE IF matchTEXT(s) > 0
    THEN LET n == matchTEXT(s)
             v == SubSeq(s, 1, n)
         IN <<Token(reserved(lower(v)), v)>> \o tokenize(SubSeq(s, n + 1, Len(s)))
    ELSE IF s[1] = "(" THEN <<Token("LPAREN", <<"(">>)>> \o tokenize(Tail(s))
    ELSE IF s[1] = ")" THEN <<Token("RPAREN", <<")">>)>> \o tokenize(Tail(s))
    ELSE <<Token("error", <<s[1]>>)>>

(***************************************************************************)
(* Parser: the LR automaton yacc builds from the grammar. Its states are   *)
(* determined by the two topmost stack symbols; a shift/reduce conflict is *)
(* resolved by comparing the level of the lookahead token (0 when it has   *)
(* none) with the level of the rule: reduce when the token's level is      *)
(* lower, or equal with the rule left-associative; shift otherwise.        *)
(***************************************************************************)
\* precedence: ('left', 'OR'), ('left', 'AND')
precedence(tok) ==
    IF tok = "OR" THEN 1 ELSE IF tok = "AND" THEN 2 ELSE 0

\* the level of a rule: that of its %prec token or of its last terminal
ruleLevel(rule) ==
    CASE rule = "and" -> precedence("AND")
      [] rule = "or" -> precedence("OR")
      [] rule = "implicit_and" -> precedence("AND")
      [] OTHER -> 0

\* TRUE: reduce, FALSE: shift (all levelled rules are 'left')
resolveReduce(rule, la) ==
    \/ precedence(la) < ruleLevel(rule)
    \/ precedence(la) = ruleLevel(rule)

\* tokens that may begin an expression, and tokens that may follow one
FirstE == {"TEXT", "LPAREN"}
FollowE == {"AND", "OR", "RPAREN", "$end"} \cup FirstE

Sym(sym, val) == [sym |-> sym, val |-> val]

symAt(stack, k) ==
    IF Len(stack) >= k THEN stack[Len(stack) + 1 - k].sym ELSE "$bottom"

\* the parsing table: "shift", "accept", "error" or the rule to reduce by
lrAction(stack, la) ==
    LET top == symAt(stack, 1)
        below == symAt(stack, 2)
        \* a complete rule on the stack against an expression that may go on
        conflict(rule) ==
            IF la \notin FollowE THEN "error"
            ELSE IF la = "RPAREN" \/ la = "$end" THEN rule
            ELSE IF resolveReduce(rule, la) THEN rule
            ELSE "shift"
    IN CASE top \in {"$bottom", "LPAREN", "AND", "OR"} ->
                IF la \in FirstE THEN "shift" ELSE "error"
         [] top = "TEXT" /\ below = "COMPARATOR" -> "literal"
         [] top = "TEXT" /\ below # "COMPARATOR" ->
                IF la = "COMPARATOR" THEN "shift"
                ELSE IF la \in FollowE THEN "condition_implicit"
                ELSE "error"
         [] top = "STRING" -> "literal"
         [] top = "literal" -> "condition"
         [] top = "COMPARATOR" ->
                IF la \in {"TEXT", "STRING"} THEN "shift" ELSE "error"
         [] top = "RPAREN" -> "grouping"
         [] top = "E" /\ below = "E" -> conflict("implicit_and")
         [] top = "E" /\ below = "AND" -> conflict("and")
         [] top = "E" /\ below = "OR" -> conflict("or")
         [] top = "E" /\ below = "LPAREN" ->
                IF la \in {"RPAREN", "AND", "OR"} \cup FirstE THEN "shift"
                ELSE "error"
         [] top = "E" /\ below = "$bottom" ->
                IF la = "$end" THEN "accept"
                ELSE IF la \in {"AND", "OR"} \cup FirstE THEN "shift"
                ELSE "error"

Pop(stack, n) == SubSeq(stack, 1, Len(stack) - n)
valAt(stack, k) == stack[Len(stack) + 1 - k].val

\* the grammar rules' actions (p_expression_and ... p_literal): the heap and
\* the stack after reducing by the rule
reduceBy(rule, h, stack) ==
    CASE rule = "and" ->
            LET n == New(h, BoolCombination(AND, <<valAt(stack, 3), valAt(stack, 1)>>))
            IN [heap |-> n.heap, stack |-> Append(Pop(stack, 3), Sym("E", n.ret))]
      [] rule = "or" ->
            LET n == New(h, BoolCombination(OR, <<valAt(stack, 3), valAt(stack, 1)>>))
            IN [heap |-> n.heap, stack |-> Append(Pop(stack, 3), Sym("E", n.ret))]
      [] rule = "implicit_and" ->
            LET n == New(h, BoolCombination(AND, <<valAt(stack, 2), valAt(stack, 1)>>))
            IN [heap |-> n.heap, stack |-> Append(Pop(stack, 2), Sym("E", n.ret))]
      [] rule = "grouping" ->
            [heap |-> h, stack |-> Append(Pop(stack, 3), Sym("E", valAt(stack, 2)))]
      [] rule = "condition" ->
            LET n == New(h, Condition(lower(valAt(stack, 3)), lower(valAt(stack, 2)),
                                      valAt(stack, 1)))
            IN [heap |-> n.heap, stack |-> Append(Pop(stack, 3), Sym("E", n.ret))]
      [] rule = "condition_implicit" ->
            LET n == New(h, Condition(IMPLICIT_PROP, <<"=">>, valAt(stack, 1)))
            IN [heap |-> n.heap, stack |-> Append(Pop(stack, 1), Sym("E", n.ret))]
      [] rule = "literal" ->
            [heap |-> h, stack |-> Append(Pop(stack, 1), Sym("literal", valAt(stack, 1)))]


\* search_parser.parse: [error, heap, ret]; t_error and p_error raise
RECURSIVE lrParse(_, _, _)
lrParse(h, stack, toks) ==
    LET la == IF toks = <<>> THEN "$end" ELSE Head(toks).type
    IN IF la = "error"
       THEN [error |-> Raise("SearchException", "Invalid character", 0), heap |-> h, ret |-> 0]
       ELSE LET a == lrAction(stack, la)
            IN CASE a = "error" ->
                      [error |-> Raise("SearchException", "Syntax error", 0), heap |-> h, ret |-> 0]
                 [] a = "accept" ->
                      [error |-> Unset, heap |-> h, ret |-> valAt(stack, 1)]
                 [] a = "shift" ->
                      lrParse(h, Append(stack, Sym(la, Head(toks).value)), Tail(toks))
                 [] OTHER ->
                      LET r == reduceBy(a, h, stack)
                      IN lrParse(r.heap, r.stack, toks)

search_parser_parse(tokens) == lrParse(<<>>, <<>>, tokens)

\* parse_query(text, optimize)
parse_query(txt, optimize) ==
    LET p == search_parser_parse(tokenize(txt))
    IN IF p.error # Unset \/ ~optimize THEN p
       ELSE LET o == optimized(p.heap, p.ret)
            IN [error |-> Unset, heap |-> o.heap, ret |-> o.ret]

(***************************************************************************)
(* Property resolver                                                       *)
(***************************************************************************)
PROP_ATTRIBUTE == "A"
PROP_SCHEME == "S"
PROP_FIELD == "F"

SEARCHABLE_ATTRIBUTES == {<<"n", "a", "m", "e">>}
SEARCHABLE_SCHEMES == {<<"t", "e", "l">>, <<"t", "w", "i", "t", "t", "e", "r">>}

\* Value.TYPE_*: text, decimal, datetime and the three location types
TYPE_TEXT == "T"
TYPE_DECIMAL == "N"
TYPE_DATETIME == "D"
TYPE_STATE == "S"
TYPE_DISTRICT == "I"
TYPE_WARD == "W"

RECURSIVE get_prop_names(_, _)
RECURSIVE NamesOfAll(_, _)
get_prop_names(h, id) ==
    IF isCondition(h, id) THEN <<h[id].prop>> ELSE NamesOfAll(h, h[id].children)
NamesOfAll(h, ids) ==
    IF ids = <<>> THEN <<>>
    ELSE get_prop_names(h, Head(ids)) \o NamesOfAll(h, Tail(ids))

\* what the three loops leave in prop_map[p]: each loop overwrites the
\* entry the loops before it wrote
Resolve(o, p) ==
    LET fields == {f \in o.fields : f.key = p}
        e0 == [prop |-> p, prop_type |-> "None", obj |-> [key |-> p, value_type |-> "-"]]
        e1 == IF fields # {}
              THEN [prop |-> p, prop_type |-> PROP_FIELD, obj |-> CHOOSE f \in fields : TRUE]
              ELSE e0
        e2 == IF p \in SEARCHABLE_ATTRIBUTES
              THEN [prop |-> p, prop_type |-> PROP_ATTRIBUTE,
                    obj |-> [key |-> p, value_type |-> "-"]]
              ELSE e1
    IN IF p \in SEARCHABLE_SCHEMES
       THEN [prop |-> p, prop_type |-> PROP_SCHEME, obj |-> [key |-> p, value_type |-> "-"]]
       ELSE e2

\* ContactQuery.get_prop_map: [error, map], the map a set of entries
get_prop_map(h, id, o) ==
    LET names == Elems(get_prop_names(h, id)) \ {IMPLICIT_PROP}
        map == {Resolve(o, p) : p \in names}
    IN IF \E e \in map : e.prop_type = "None"
       THEN [error |-> Raise("SearchException", "Unrecognized field", id), map |-> {}]
       ELSE [error |-> Unset, map |-> map]

(***************************************************************************)
(* Literal conversions                                                     *)
(***************************************************************************)
DigitChars == Elems(Digits)
DigitValue == [c \in Elems(Digits) |-> (CHOOSE i \in 1..Len(Digits) : Digits[i] = c) - 1]
isDigits(s) == s # <<>> /\ \A i \in 1..Len(s) : s[i] \in DigitChars
digit(c) == DigitValue[c]
RECURSIVE number(_)
number(s) == IF s = <<>> THEN 0 ELSE 10 * number(SubSeq(s, 1, Len(s) - 1)) + digit(s[Len(s)])

\* Decimal(value) and int(value) on the literals of the model (digits, letters,
\* '-'): a run of digits converts, anything else raises
converts(s) == isDigits(s)

\* str_to_datetime(value, tz, dayfirst, fill_time=False): three runs of
\* digits separated by '-' are a date, anything else (the empty string too) is
\* None; the instant is counted in days
dashes(s) == {i \in 1..Len(s) : s[i] = "-"}
isDate(s) ==
    /\ Cardinality(dashes(s)) = 2
    /\ LET i == CHOOSE x \in dashes(s) : \A y \in dashes(s) : x <= y
           j == CHOOSE x \in dashes(s) : \A y \in dashes(s) : x >= y
       IN /\ isDigits(SubSeq(s, 1, i - 1))
          /\ isDigits(SubSeq(s, i + 1, j - 1))
          /\ isDigits(SubSeq(s, j + 1, Len(s)))
str_to_datetime(s, dayfirst) ==
    LET i == CHOOSE x \in dashes(s) : \A y \in dashes(s) : x <= y
        j == CHOOSE x \in dashes(s) : \A y \in dashes(s) : x >= y
        a == number(SubSeq(s, 1, i - 1))
        b == number(SubSeq(s, i + 1, j - 1))
        y == number(SubSeq(s, j + 1, Len(s)))
        day == IF dayfirst THEN a ELSE b
        month == IF dayfirst THEN b ELSE a
    IN (y * 12 + month) * 31 + day

(***************************************************************************)
(* Predicate compiler. A predicate (Q object) is a tree of records; a leaf *)
(* records in 'of' the Condition it was compiled from.                     *)
(***************************************************************************)
TEXT_LOOKUPS(c) ==
    IF c = <<"=">> THEN "iexact" ELSE IF c = <<"~">> THEN "icontains" ELSE ""

DECIMAL_LOOKUPS(c) ==
    CASE c = <<"=">> -> "exact"
      [] c = <<"i", "s">> -> "exact"
      [] c = <<">">> -> "gt"
      [] c = <<">", "=">> -> "gte"
      [] c = <<"<">> -> "lt"
      [] c = <<"<", "=">> -> "lte"
      [] OTHER -> ""

DATETIME_LOOKUPS(c) ==
    CASE c = <<"=">> -> "<equal>"
      [] c = <<"i", "s">> -> "<equal>"
      [] c = <<">">> -> "gt"
      [] c = <<">", "=">> -> "gte"
      [] c = <<"<">> -> "lt"
      [] c = <<"<", "=">> -> "lte"
      [] OTHER -> ""

LOCATION_LOOKUPS(c) == TEXT_LOOKUPS(c)

Param(col, lookup, value) == [col |-> col, lookup |-> lookup, value |-> value]
Ok(q) == [error |-> Unset, q |-> q]
Failed(e) == [error |-> e, q |-> Unset]

\* the parameter dictionaries, without their 'contact_field' entry
build_text_field_params(h, id) ==
    LET lookup == TEXT_LOOKUPS(h[id].comparator)
    IN IF lookup = ""
       THEN Failed(Raise("SearchException", "Unsupported comparator for text field", id))
       ELSE Ok({Param("string_value", lookup, h[id].value)})

build_decimal_field_params(h, id) ==
    LET lookup == DECIMAL_LOOKUPS(h[id].comparator)
    IN IF lookup = ""
       THEN Failed(Raise("SearchException", "Unsupported comparator for decimal field", id))
       ELSE IF ~converts(h[id].value)
       THEN Failed(Raise("SearchException", "Can't convert to a decimal", id))
       ELSE Ok({Param("decimal_value", lookup, number(h[id].value))})

build_datetime_field_params(h, id, o) ==
    LET lookup == DATETIME_LOOKUPS(h[id].comparator)
    IN IF lookup = ""
       THEN Failed(Raise("SearchException", "Unsupported comparator for datetime field", id))
       ELSE IF ~isDate(h[id].value)
       THEN Failed(Raise("SearchException", "Unable to parse date", id))
       ELSE LET value == str_to_datetime(h[id].value, o.dayfirst)
            IN CASE lookup = "<equal>" ->
                      Ok({Param("datetime_value", "gte", value),
                          Param("datetime_value", "lt", value + 1)})
                 [] lookup = "lte" -> Ok({Param("datetime_value", "lt", value + 1)})
                 [] lookup = "gt" -> Ok({Param("datetime_value", "gte", value + 1)})
                 [] OTHER -> Ok({Param("datetime_value", lookup, value)})

build_location_field_params(h, id) ==
    LET lookup == LOCATION_LOOKUPS(h[id].comparator)
    IN IF lookup = ""
       THEN Failed(Raise("SearchException", "Unsupported comparator for location field", id))
       ELSE Ok({Param("location_value", "in", [lookup |-> lookup, value |-> h[id].value])})

build_value_query_params(h, id, field, o) ==
    CASE field.value_type = TYPE_TEXT -> build_text_field_params(h, id)
      [] field.value_type = TYPE_DECIMAL -> build_decimal_field_params(h, id)
      [] field.value_type = TYPE_DATETIME -> build_datetime_field_params(h, id, o)
      [] field.value_type \in {TYPE_STATE, TYPE_DISTRICT, TYPE_WARD} ->
            build_location_field_params(h, id)
      [] OTHER -> Failed(Raise("ValueError", "Unrecognized contact field type", id))

build_value_query(h, id, field, o) ==
    LET p == build_value_query_params(h, id, field, o)
    IN IF p.error # Unset THEN p
       ELSE Ok([k |-> "id_in_values", of |-> id, field |-> field.key, params |-> p.q])

build_implicit_prop_query(h, id, o) ==
    LET name_query == [k |-> "attr", of |-> id, attr |-> <<"n", "a", "m", "e">>,
                       lookup |-> "icontains", value |-> h[id].value]
        urn_query ==
            IF o.is_anon
            THEN (IF converts(h[id].value)
                  THEN [k |-> "id", of |-> id, value |-> number(h[id].value)]
                  ELSE [k |-> "id", of |-> id, value |-> -1])
            ELSE [k |-> "id_in_urns", of |-> id, scheme |-> None,
                  lookup |-> "icontains", value |-> h[id].value]
    IN Ok([k |-> OR, left |-> name_query, right |-> urn_query])

build_attr_query(h, id, attr) ==
    LET lookup == TEXT_LOOKUPS(h[id].comparator)
    IN IF lookup = ""
       THEN Failed(Raise("SearchException", "Unsupported comparator for contact attribute", id))
       ELSE Ok([k |-> "attr", of |-> id, attr |-> attr, lookup |-> lookup,
                value |-> h[id].value])

build_urn_query(h, id, scheme) ==
    LET lookup == TEXT_LOOKUPS(h[id].comparator)
    IN IF lookup = ""
       THEN Failed(Raise("SearchException", "Unsupported comparator for URN", id))
       ELSE Ok([k |-> "id_in_urns", of |-> id, scheme |-> scheme, lookup |-> lookup,
                value |-> h[id].value])

\* Condition.as_query
Condition_as_query(h, id, o, map) ==
    IF h[id].prop = IMPLICIT_PROP THEN build_implicit_prop_query(h, id, o)
    ELSE IF ~\E e \in map : e.prop = h[id].prop
    THEN Failed(Raise("KeyError", "prop_map[self.prop]", id))
    ELSE LET e == CHOOSE e \in map : e.prop = h[id].prop
         IN CASE e.prop_type = PROP_FIELD ->
                    IF lower(h[id].comparator) \in {<<"=">>, <<"i", "s">>}
                       /\ h[id].value = <<>>
                    THEN Ok([k |-> "not_id_in_values", of |-> id, field |-> e.obj.key])
                    ELSE build_value_query(h, id, e.obj, o)
              [] e.prop_type = PROP_SCHEME ->
                    IF o.is_anon THEN Ok([k |-> "id", of |-> id, value |-> -1])
                    ELSE build_urn_query(h, id, e.obj.key)
              [] OTHER -> build_attr_query(h, id, e.obj.key)

\* reduce(self.op, queries): a left fold
RECURSIVE reduce(_, _)
reduce(op, qs) ==
    IF Len(qs) = 1 THEN qs[1]
    ELSE [k |-> op, left |-> reduce(op, SubSeq(qs, 1, Len(qs) - 1)), right |-> qs[Len(qs)]]

\* the value queries of a SinglePropCombination on a field, child by child;
\* the first child that raises ends the loop
RECURSIVE ValueQueries(_, _, _, _)
ValueQueries(h, ids, field, o) ==
    IF ids = <<>> THEN Ok(<<>>)
    ELSE LET p == build_value_query_params(h, Head(ids), field, o)
         IN IF p.error # Unset THEN p
            ELSE LET rest == ValueQueries(h, Tail(ids), field, o)
                 IN IF rest.error # Unset THEN rest
                    ELSE Ok(<<[k |-> "params", of |-> Head(ids), params |-> p.q]>>
                                \o rest.q)

RECURSIVE as_query(_, _, _, _)
RECURSIVE ChildQueries(_, _, _, _)

\* [child.as_query(org, prop_map) for child in self.children]
ChildQueries(h, ids, o, map) ==
    IF ids = <<>> THEN Ok(<<>>)
    ELSE LET a == as_query(h, Head(ids), o, map)
         IN IF a.error # Unset THEN a
            ELSE LET rest == ChildQueries(h, Tail(ids), o, map)
                 IN IF rest.error # Unset THEN rest ELSE Ok(<<a.q>> \o rest.q)

\* BoolCombination.as_query
BoolCombination_as_query(h, id, o, map) ==
    LET qs == ChildQueries(h, h[id].children, o, map)
    IN IF qs.error # Unset THEN qs
       ELSE IF qs.q = <<>>
       THEN Failed(Raise("TypeError", "reduce() of empty sequence", id))
       ELSE Ok(reduce(h[id].op, qs.q))

\* SinglePropCombination.as_query
SinglePropCombination_as_query(h, id, o, map) ==
    IF ~\E e \in map : e.prop = h[id].prop
    THEN Failed(Raise("KeyError", "prop_map[self.prop]", id))
    ELSE LET e == CHOOSE e \in map : e.prop = h[id].prop
         IN IF e.prop_type = PROP_FIELD
            THEN LET vq == ValueQueries(h, h[id].children, e.obj, o)
                 IN IF vq.error # Unset THEN vq
                    ELSE Ok([k |-> "id_in_values_q", field |-> e.obj.key,
                             value_query |-> reduce(h[id].op, vq.q)])
            ELSE BoolCombination_as_query(h, id, o, map)

as_query(h, id, o, map) ==
    CASE h[id].kind = "Condition" -> Condition_as_query(h, id, o, map)
      [] h[id].kind = "BoolCombination" -> BoolCombination_as_query(h, id, o, map)
      [] h[id].kind = "SinglePropCombination" -> SinglePropCombination_as_query(h, id, o, map)

\* ContactQuery.as_query
ContactQuery_as_query(h, id, o) ==
    LET pm == get_prop_map(h, id, o)
    IN IF pm.error # Unset THEN Failed(pm.error)
       ELSE as_query(h, id, o, pm.map)

(***************************************************************************)
(* The contacts a predicate selects from a state of the store (what        *)
(* base_queryset.filter(query) returns)                                    *)
(***************************************************************************)
iexact(a, b) == lower(a) = lower(b)
icontains(hay, needle) ==
    \E i \in 1..(Len(hay) + 1) :
        /\ i + Len(needle) - 1 <= Len(hay)
        /\ SubSeq(lower(hay), i, i + Len(needle) - 1) = lower(needle)
textMatch(lookup, a, b) == IF lookup = "iexact" THEN iexact(a, b) ELSE icontains(a, b)

compare(lookup, a, b) ==
    CASE lookup = "exact" -> a = b
      [] lookup = "gt" -> a > b
      [] lookup = "gte" -> a >= b
      [] lookup = "lt" -> a < b
      [] lookup = "lte" -> a <= b

\* a Value row against one lookup; a NULL column (<<>>) matches nothing
RowSat(st, r, p) ==
    CASE p.col = "string_value" -> textMatch(p.lookup, r.string_value, p.value)
      [] p.col = "decimal_value" ->
            r.decimal_value # <<>> /\ compare(p.lookup, r.decimal_value[1], p.value)
      [] p.col = "datetime_value" ->
            r.datetime_value # <<>> /\ compare(p.lookup, r.datetime_value[1], p.value)
      [] p.col = "location_value" ->
            /\ r.location_value # <<>>
            /\ \E b \in st.boundaries :
                  /\ b.id = r.location_value[1]
                  /\ textMatch(p.value.lookup, b.name, p.value.value)

RECURSIVE RowSatQ(_, _, _)
RowSatQ(st, r, vq) ==
    CASE vq.k = "params" -> \A p \in vq.params : RowSat(st, r, p)
      [] vq.k = AND -> RowSatQ(st, r, vq.left) /\ RowSatQ(st, r, vq.right)
      [] vq.k = OR -> RowSatQ(st, r, vq.left) \/ RowSatQ(st, r, vq.right)

RECURSIVE Select(_, _)
Select(st, q) ==
    LET ids == {c.id : c \in st.contacts}
    IN CASE q.k = "attr" ->
                {c.id : c \in {c \in st.contacts : textMatch(q.lookup, c.name, q.value)}}
         [] q.k = "id" -> {i \in ids : i = q.value}
         [] q.k = "id_in_urns" ->
                {u.contact : u \in {u \in st.urns :
                    /\ q.scheme \in {None, u.scheme}
                    /\ textMatch(q.lookup, u.path, q.value)}}
         [] q.k = "id_in_values" ->
                {r.contact : r \in {r \in st.values :
                    r.field = q.field /\ \A p \in q.params : RowSat(st, r, p)}}
         [] q.k = "not_id_in_values" ->
                ids \ {r.contact : r \in {r \in st.values : r.field = q.field}}
         [] q.k = "id_in_values_q" ->
                {r.contact : r \in {r \in st.values :
                    r.field = q.field /\ RowSatQ(st, r, q.value_query)}}
         [] q.k = AND -> Select(st, q.left) \cap Select(st, q.right)
         [] q.k = OR -> Select(st, q.left) \cup Select(st, q.right)

\* the leaves of a predicate, each with the Condition it was compiled from
RECURSIVE LeavesOf(_)
LeavesOf(q) ==
    CASE q.k \in {AND, OR} -> LeavesOf(q.left) \cup LeavesOf(q.right)
      [] q.k = "id_in_values_q" -> LeavesOf(q.value_query)
      [] OTHER -> {q}

(***************************************************************************)
(* Inputs of the pipeline: query texts of up to MaxWords words,            *)
(* organizations, and states of the store                                  *)
(***************************************************************************)
Words ==
    {<<"f", "=", "\"", "\"">>,
     <<"f", "=", "1">>,
     <<"F", ">", "1", "-", "1", "-", "1">>,
     <<"b">>,
     <<"N", "a", "m", "e", " ", "h", "a", "s", " ", "b">>,
     <<"t", "e", "l", "=", "1">>,
     <<"O", "R">>,
     <<"a", "n", "d">>,
     <<"(">>,
     <<")">>,
     <<"!">>}

RECURSIVE Texts(_)
Texts(n) ==
    IF n = 0 THEN {<<>>}
    ELSE IF n = 1 THEN Words
    ELSE {t \o <<" ">> \o w : t \in Texts(n - 1), w \in Words}

AllTexts(max) == UNION {Texts(n) : n \in 0..max}

FieldF == {{}} \cup {{[key |-> <<"f">>, value_type |-> t]} :
                        t \in {TYPE_TEXT, TYPE_DECIMAL, TYPE_DATETIME, TYPE_STATE}}
FieldName == {{}, {[key |-> <<"n", "a", "m", "e">>, value_type |-> TYPE_TEXT]}}

Orgs ==
    {[is_anon |-> a, dayfirst |-> TRUE, fields |-> f \cup n] :
        a \in BOOLEAN, f \in FieldF, n \in FieldName}

Row(c, s) ==
    [contact |-> c, field |-> <<"f">>, string_value |-> s,
     decimal_value |-> IF converts(s) THEN <<number(s)>> ELSE <<>>,
     datetime_value |-> IF isDate(s) THEN <<str_to_datetime(s, TRUE)>> ELSE <<>>,
     location_value |-> IF s = <<"b">> THEN <<1>> ELSE <<>>]

RowChoices(c) ==
    {{}} \cup {{Row(c, s)} : s \in {<<"1">>, <<"b">>, <<"1", "-", "1", "-", "1">>}}

Stores ==
    {[contacts |-> {[id |-> 1, name |-> <<"b">>], [id |-> 2, name |-> <<"x">>]},
      urns |-> {[contact |-> 1, scheme |-> <<"t", "e", "l">>, path |-> <<"1">>],
                [contact |-> 2, scheme |-> <<"t", "e", "l">>, path |-> <<"2">>]},
      boundaries |-> {[id |-> 1, name |-> <<"b">>]},
      values |-> v1 \cup v2] : v1 \in RowChoices(1), v2 \in RowChoices(2)}

(***************************************************************************)
(* The pipeline: parse, compile the parsed query for an organization,      *)
(* optimize, compile the optimized query                                   *)
(***************************************************************************)
NoMap == [error |-> Unset, map |-> {}]
NoOrg == [is_anon |-> FALSE, dayfirst |-> TRUE, fields |-> {}]

Init ==
    /\ text \in AllTexts(MaxWords)
    /\ org = NoOrg
    /\ pc = "start"
    /\ heap = <<>>
    /\ built = <<>>
    /\ root = 0
    /\ cur = 0
    /\ pre = [heap |-> <<>>, root |-> 0]
    /\ tree0 = Unset
    /\ treeS = Unset
    /\ propMap = NoMap
    /\ rawResult = Unset
    /\ optResult = Unset

\* parse_query(text, optimize=False)
ParseQuery ==
    /\ pc = "start"
    /\ LET p == parse_query(text, FALSE)
       IN IF p.error # Unset
          THEN /\ pc' = "failed"
               /\ optResult' = Failed(p.error)
               /\ UNCHANGED <<heap, root, cur, tree0>>
          ELSE /\ pc' = "parsed"
               /\ heap' = p.heap
               /\ root' = p.ret
               /\ cur' = p.ret
               /\ tree0' = TreeOf(p.heap, p.ret)
               /\ UNCHANGED optResult
    /\ UNCHANGED <<built, text, org, pre, treeS, propMap, rawResult>>

\* query.as_query(org) on the parsed query
CompileParsed ==
    /\ pc = "parsed"
    /\ \E o \in Orgs :
          /\ org' = o
          /\ propMap' = get_prop_map(heap, root, o)
          /\ rawResult' = ContactQuery_as_query(heap, root, o)
    /\ pc' = "compiled"
    /\ UNCHANGED <<built, text, heap, root, cur, pre, tree0, treeS, optResult>>

\* query.optimized()
Optimize ==
    /\ pc \in {"parsed", "compiled"}
    /\ LET r == optimized(heap, root)
       IN /\ heap' = r.heap
          /\ cur' = r.ret
    /\ pre' = [heap |-> heap, root |-> root]
    /\ pc' = "optimized"
    /\ UNCHANGED <<built, text, org, root, tree0, treeS, propMap, rawResult, optResult>>

\* as_query(org) on the optimized query, for the organization the parsed
\* query was compiled for when it was
CompileOptimized ==
    /\ pc = "optimized"
    /\ \E o \in Orgs :
          /\ rawResult # Unset => o = org
          /\ org' = o
          /\ propMap' = get_prop_map(heap, cur, o)
          /\ optResult' = ContactQuery_as_query(heap, cur, o)
    /\ pc' = "done"
    /\ UNCHANGED <<built, text, heap, root, cur, pre, tree0, treeS, rawResult>>

Next == ParseQuery \/ CompileParsed \/ Optimize \/ CompileOptimized

Spec == Init /\ [][Next]_vars

(***************************************************************************)
(* The optimizer on its own, over every tree built from Conditions and     *)
(* BoolCombinations of two or more children, with up to MaxLeaves leaves   *)
(***************************************************************************)
Leaves ==
    {Condition(<<"f">>, <<"=">>, <<"1">>),
     Condition(<<"g">>, <<"=">>, <<"1">>),
     Condition(IMPLICIT_PROP, <<"=">>, <<"b">>)}

InitOpt ==
    /\ pc = "build"
    /\ heap = <<>>
    /\ built = <<>>
    /\ root = 0
    /\ cur = 0
    /\ tree0 = Unset
    /\ pre = [heap |-> <<>>, root |-> 0]
    /\ text = <<>>
    /\ org = NoOrg
    /\ treeS = Unset
    /\ propMap = NoMap
    /\ rawResult = Unset
    /\ optResult = Unset

leafCount(h) == Cardinality({i \in 1..Len(h) : isCondition(h, i)})

\* Condition(prop, comparator, value)
NewCondition ==
    /\ pc = "build"
    /\ leafCount(heap) < MaxLeaves
    /\ \E c \in Leaves :
          LET n == New(heap, c)
          IN /\ heap' = n.heap
             /\ built' = Append(built, n.ret)
    /\ UNCHANGED <<pc, text, org, root, cur, pre, tree0, treeS, propMap,
                   rawResult, optResult>>

\* BoolCombination(op, *children), on the two or more trees built last
NewCombination ==
    /\ pc = "build"
    /\ \E op \in {AND, OR}, k \in 2..Len(built) :
          LET n == New(heap, BoolCombination(op, SubSeq(built, Len(built) - k + 1, Len(built))))
          IN /\ heap' = n.heap
             /\ built' = Append(SubSeq(built, 1, Len(built) - k), n.ret)
    /\ UNCHANGED <<pc, text, org, root, cur, pre, tree0, treeS, propMap,
                   rawResult, optResult>>

\* the tree is complete: it is the input of the optimizer
Built ==
    /\ pc = "build"
    /\ Len(built) = 1
    /\ root' = built[1]
    /\ cur' = built[1]
    /\ tree0' = TreeOf(heap, built[1])
    /\ pre' = [heap |-> heap, root |-> built[1]]
    /\ pc' = "tree"
    /\ UNCHANGED <<text, org, heap, built, treeS, propMap, rawResult, optResult>>

Simplify ==
    /\ pc = "tree"
    /\ LET r == simplify(heap, cur)
       IN /\ heap' = r.heap
          /\ cur' = r.ret
          /\ treeS' = TreeOf(r.heap, r.ret)
    /\ pre' = [heap |-> heap, root |-> cur]
    /\ pc' = "simplified"
    /\ UNCHANGED <<built, text, org, root, tree0, propMap, rawResult, optResult>>

SimplifyAgain ==
    /\ pc = "simplified"
    /\ LET r == simplify(heap, cur)
       IN /\ heap' = r.heap
          /\ cur' = r.ret
    /\ pre' = [heap |-> heap, root |-> cur]
    /\ pc' = "simplified2"
    /\ UNCHANGED <<built, text, org, root, tree0, treeS, propMap, rawResult, optResult>>

SplitByProp ==
    /\ pc \in {"tree", "simplified"}
    /\ LET r == split_by_prop(heap, cur)
       IN /\ heap' = r.heap
          /\ cur' = r.ret
    /\ pre' = [heap |-> heap, root |-> cur]
    /\ pc' = "split"
    /\ UNCHANGED <<built, text, org, root, tree0, treeS, propMap, rawResult, optResult>>

NextOpt ==
    \/ NewCondition
    \/ NewCombination
    \/ Built
    \/ Simplify
    \/ SimplifyAgain
    \/ SplitByProp

SpecOpt == InitOpt /\ [][NextOpt]_vars

(***************************************************************************)
(* Properties of the optimizer                                             *)
(***************************************************************************)
isCombination(h, id) == ~isCondition(h, id)

SameOpNested(h, n) ==
    \E i \in 1..Len(h[n].children) :
        /\ isCombination(h, h[n].children[i])
        /\ h[h[n].children[i]].op = h[n].op

OtherOpNested(h, n) ==
    \E i \in 1..Len(h[n].children) :
        /\ isCombination(h, h[n].children[i])
        /\ h[h[n].children[i]].op # h[n].op

\* C4: in the tree simplify returns, no combination has a direct child that
\* is a combination with the same operator, at any depth.
C4_NoSameOpNesting ==
    pc = "simplified" =>
        \A n \in Nodes(heap, cur) : isCombination(heap, n) => ~SameOpNested(heap, n)

\* C8: simplify is idempotent: simplifying the tree simplify returned gives
\* a tree structurally equal to it.
C8_SimplifyIdempotent ==
    pc = "simplified2" => TreeOf(heap, cur) = treeS

\* C8 witness: a second simplify ran on a result of simplify that still nests
\* a combination under one with the same operator (the first call gave up at
\* a child with the other operator), where a second pass could flatten more.
C8_Witness ==
    /\ pc = "simplified2"
    /\ \E n \in Nodes(heap, cur) :
          /\ isCombination(heap, n)
          /\ SameOpNested(heap, n)
          /\ OtherOpNested(heap, n)

SinglePropNodes(h, id) ==
    {n \in Nodes(h, id) : h[n].kind = "SinglePropCombination"}

\* C5: split_by_prop wraps a group only when it has more than one member and
\* all members are Conditions on the same explicitly named property; implicit
\* Conditions and non-Conditions are never wrapped.
C5_OnlyConcretePropsWrapped ==
    pc = "split" =>
        \A n \in SinglePropNodes(heap, cur) :
            /\ Len(heap[n].children) > 1
            /\ heap[n].prop # IMPLICIT_PROP
            /\ SinglePropAssert(heap, heap[n].prop, heap[n].children)

\* C9: every SinglePropCombination split_by_prop creates holds only Conditions
\* on its own prop, all of them direct children of one BoolCombination of the
\* input, and carries that parent's operator.
C9_GroupsSiblingsOfOneParent ==
    pc = "split" =>
        \A n \in SinglePropNodes(heap, cur) :
            /\ SinglePropAssert(heap, heap[n].prop, heap[n].children)
            /\ \E b \in Nodes(pre.heap, pre.root) :
                  /\ pre.heap[b].kind = "BoolCombination"
                  /\ pre.heap[b].op = heap[n].op
                  /\ Elems(heap[n].children) \subseteq Elems(pre.heap[b].children)

\* C9 witness: a split wrapped some siblings on a named property and left a
\* sibling on another property outside the wrapper.
C9_Witness ==
    /\ pc = "split"
    /\ \E b \in Nodes(heap, cur) :
          /\ heap[b].kind = "BoolCombination"
          /\ \E i, j \in 1..Len(heap[b].children) :
                /\ heap[heap[b].children[i]].kind = "SinglePropCombination"
                /\ heap[heap[b].children[i]].prop = <<"f">>
                /\ isCondition(heap, heap[b].children[j])
                /\ heap[heap[b].children[j]].prop = <<"g">>

(***************************************************************************)
(* Properties of the pipeline                                              *)
(***************************************************************************)
compiledBoth == pc = "done" /\ rawResult # Unset

\* C1: compiling the optimized tree selects the same contacts as compiling
\* the un-optimized tree, in every state of the store, and fails exactly
\* when compiling the un-optimized tree fails.
C1_OptimizedEquivalent ==
    compiledBoth =>
        /\ (optResult.error # Unset) <=> (rawResult.error # Unset)
        /\ (optResult.error = Unset /\ rawResult.error = Unset) =>
              \A st \in Stores : Select(st, optResult.q) = Select(st, rawResult.q)

\* C2: parse_query(text) followed by as_query(org) returns a predicate or
\* raises SearchException, never another kind of error.
C2_OnlySearchException ==
    pc \in {"failed", "done"} =>
        optResult.error = Unset \/ optResult.error.kind = "SearchException"

isFieldProp(map, p) == \E e \in map : e.prop = p /\ e.prop_type = PROP_FIELD

\* the Conditions of a tree that test a custom field for '= ""'
EmptyEqualities(h, id, map) ==
    {c \in Nodes(h, id) :
        /\ isCondition(h, c)
        /\ isFieldProp(map, h[c].prop)
        /\ h[c].comparator = <<"=">>
        /\ h[c].value = <<>>}

\* C3: a Condition on a custom field with comparator = and the empty literal
\* compiles to the field-absence predicate wherever it sits in the tree,
\* and never raises.
C3_EmptyEqualityIsAbsence ==
    pc = "done" =>
        \A c \in EmptyEqualities(heap, cur, propMap.map) :
            /\ optResult.error # Unset => optResult.error.at # c
            /\ optResult.error = Unset =>
                  \A q \in LeavesOf(optResult.q) :
                      q.of = c => q.k = "not_id_in_values"

\* C6: a name that is the key of an active custom field of the organization
\* is mapped to that field, also when it is a searchable attribute or scheme;
\* a name matching nothing raises.
C6_FieldWinsResolution ==
    pc \in {"compiled", "done"} =>
        /\ \A e \in propMap.map :
              (\E f \in org.fields : f.key = e.prop) => e.prop_type = PROP_FIELD
        /\ propMap.error # Unset => propMap.error.kind = "SearchException"

\* the tokens with an AND token inserted at every juxtaposition: between a
\* token that ends an expression and a token that begins one
RECURSIVE insertAnds(_)
insertAnds(toks) ==
    IF Len(toks) < 2 THEN toks
    ELSE IF toks[1].type \in {"TEXT", "STRING", "RPAREN"} /\ toks[2].type \in FirstE
    THEN <<toks[1], Token("AND", <<"a", "n", "d">>)>> \o insertAnds(Tail(toks))
    ELSE <<toks[1]>> \o insertAnds(Tail(toks))

juxtaposes(toks) == insertAnds(toks) # toks

\* C7: juxtaposition has the precedence and associativity of the AND token:
\* the parsed tree equals the tree parsed with an AND written at every
\* juxtaposition.
C7_JuxtapositionIsAnd ==
    pc = "parsed" =>
        LET e == search_parser_parse(insertAnds(tokenize(text)))
        IN e.error = Unset /\ TreeOf(e.heap, e.ret) = tree0

\* C10: optimized() leaves its receiver unchanged: the receiver's tree is
\* structurally what it was before the call.
C10_ReceiverUnchanged ==
    pc \in {"optimized", "done"} => TreeOf(heap, root) = tree0

====
